---- MODULE Spec2Model ----
(***************************************************************************)
(* Iterative back-translation trainer (pre-trained-model/train.py).        *)
(*                                                                         *)
(* train_model is modelled statement block by statement block; the         *)
(* helpers print_random_decoded_entries and fix_attention_mask are         *)
(* operators computed as the Python code computes them.  The seq2seq       *)
(* models, the trainer, the tokenizer and the datasets library are         *)
(* external collaborators: a call to one of them is recorded in `calls`    *)
(* and its result is drawn from a bounded set of outcomes.                 *)
(*                                                                         *)
(* A text is a sequence of word ids (>= 2); token id 0 is the pad id,      *)
(* 1 the end-of-sequence id and -100 the ignore-label value.               *)
(*                                                                         *)
(* The corpus loaders (yield_csv_lines, yield_paired_lines,                *)
(* yield_mono_lines) are generators: one action is one pass of their       *)
(* loop.  There a line is a sequence of characters.                        *)
(***************************************************************************)
EXTENDS Integers, Sequences, FiniteSets, TLC

\* ------------------------------------------------------------------ bounds
MaxIterations   == 2   \* iterations is drawn from 0..MaxIterations
MaxParallelRows == 2   \* rows of parallel_data: 1 or MaxParallelRows
MaxMonoRows     == 10  \* rows of a monolingual corpus: num_rows - 1 or MaxMonoRows
MaxGen          == 2   \* behaviours of the generating model that are explored
MaxSeed         == 2   \* generator states explored inside train_model
MaxFnRows       == 2   \* rows of a corpus handed directly to a helper
MaxFnLen        == 2   \* length of an id sequence handed directly to a helper
MaxFnSeed       == 6   \* generator states explored when a helper is called directly
MaxApplications == 2   \* consecutive applications of fix_attention_mask
MaxParallelLines == 2  \* lines of a file of parallel data
MaxMonoLines    == 3   \* lines of a monolingual file

\* --------------------------------------------------------- program constants
PAD_ID             == 0      \* fix_attention_mask: x != 0
IGNORE_ID          == -100   \* x != -100
EOS_ID             == 1      \* end-of-sequence id of the t5 tokenizer
DEFAULT_NUM_ROWS   == 10     \* print_random_decoded_entries(num_rows=10)
WARMUP_EPOCHS      == 10     \* num_train_epochs=10 of the first trainer
PREPROCESS_MAX_LEN == 200    \* max_length=200 of the preprocess functions
PREDICT_MAX_LEN    == 40     \* predict(max_length=40)
TEST_PERCENT       == 10     \* train_test_split(test_size=0.1)
DEFAULT_N          == 1000000 \* yield_csv_lines, yield_mono_lines (n=1_000_000)

\* The null of a missing column (None in a concatenated dataset).
None == <<-1>>

SOURCE_TO_TARGET == "source_to_target"
TARGET_TO_SOURCE == "target_to_source"

\* ---------------------------------------------------------------- tokenizer
\* tokenizer(inputs, max_length=max_length, truncation=True): the words of the
\* text followed by the end-of-sequence id, cut to max_length ids.
Tokenize(text, max_length) ==
    IF Len(text) + 1 > max_length
    THEN SubSeq(text, 1, max_length - 1) \o <<EOS_ID>>
    ELSE text \o <<EOS_ID>>

\* The result of decoding ids that are no vocabulary index: decode raises.
DecodeError == <<-2>>

\* tokenizer.decode(ids, skip_special_tokens=True)
Decode(ids) ==
    IF \E p \in DOMAIN ids : ids[p] < 0
    THEN DecodeError
    ELSE SelectSeq(ids, LAMBDA x : x # PAD_ID /\ x # EOS_ID)

Ones(ids) == [p \in DOMAIN ids |-> 1]

\* ------------------------------------------------------- preprocess functions
preprocess_source_to_target(examples, source_lang, target_lang, max_length) ==
    [r \in DOMAIN examples |->
        LET inputs  == Tokenize(examples[r][source_lang], max_length)
            targets == Tokenize(examples[r][target_lang], max_length)
        IN  [examples[r] EXCEPT !.input_ids = inputs,
                                !.attention_mask = Ones(inputs),
                                !.labels = targets]]

preprocess_target_function(examples, max_length) ==
    [r \in DOMAIN examples |->
        LET inputs == Tokenize(examples[r].tgt, max_length)
        IN  [examples[r] EXCEPT !.input_ids = inputs,
                                !.attention_mask = Ones(inputs)]]

preprocess_source_function(examples, max_length) ==
    [r \in DOMAIN examples |->
        LET inputs == Tokenize(examples[r].src, max_length)
        IN  [examples[r] EXCEPT !.input_ids = inputs,
                                !.attention_mask = Ones(inputs)]]

\* ---------------------------------------------------------- fix_attention_mask
\* A variant that builds the mask from the unfiltered ids.
fix_attention_mask_StaleMask(examples) ==
    [r \in DOMAIN examples |->
        [examples[r] EXCEPT
            !.input_ids = SelectSeq(examples[r].input_ids,
                                    LAMBDA x : x # PAD_ID /\ x # IGNORE_ID),
            !.attention_mask = Ones(examples[r].input_ids)]]

\* A variant that strips the ignore value only.
fix_attention_mask_KeepPad(examples) ==
    [r \in DOMAIN examples |->
        LET ids == SelectSeq(examples[r].input_ids, LAMBDA x : x # IGNORE_ID)
        IN  [examples[r] EXCEPT !.input_ids = ids, !.attention_mask = Ones(ids)]]

fix_attention_mask(examples) ==
    [r \in DOMAIN examples |->
        LET ids == SelectSeq(examples[r].input_ids,
                             LAMBDA x : x # PAD_ID /\ x # IGNORE_ID)
        IN  [examples[r] EXCEPT !.input_ids = ids, !.attention_mask = Ones(ids)]]

\* ------------------------------------------------------------ random.sample
\* random.sample(range(n), k) for a population that fits the pool branch:
\*     for i in range(k): j = randbelow(n - i)
\*                        result[i] = pool[j]; pool[j] = pool[n - i - 1]
\* The generator's state is the number `seed`; randbelow(m) consumes its
\* lowest base-m digit.
RECURSIVE SampleFromPool(_, _, _, _)
SampleFromPool(pool, live, k, seed) ==
    IF k = 0 THEN <<>>
    ELSE LET j == seed % live
         IN  <<pool[j + 1]>> \o
             SampleFromPool([pool EXCEPT ![j + 1] = pool[live]],
                            live - 1, k - 1, seed \div live)

\* The generator's state after random.sample(range(n), k).
RECURSIVE AfterSample(_, _, _)
AfterSample(seed, live, k) ==
    IF k = 0 THEN seed ELSE AfterSample(seed \div live, live - 1, k - 1)

\* A variant that draws with replacement (random.choices).
random_sample_WithReplacement(n, k, seed) ==
    [i \in 1..k |-> (seed + (i - 1) * (seed + 1)) % n]

\* Defined for 0 <= k <= n; random.sample raises ValueError otherwise.
random_sample(n, k, seed) ==
    SampleFromPool([i \in 1..n |-> i - 1], n, k, seed)

\* ---------------------------------------------------------- train_test_split
\* ceil(test_size * n) for test_size = TEST_PERCENT / 100
NTest(n) == (n * TEST_PERCENT + 99) \div 100

\* Dataset.train_test_split(test_size=0.1): a seeded permutation of the rows,
\* the first n_test of it the test part and the rest the train part.
\* It raises ValueError when the train part would be empty.
SplitRaises(rows) == Len(rows) - NTest(Len(rows)) <= 0

\* A variant whose train part keeps the rows of the test part.
train_test_split_Overlapping(rows, seed) ==
    LET n      == Len(rows)
        n_test == NTest(n)
        perm   == random_sample(n, n, seed)
    IN  [test  |-> [i \in 1..n_test |-> rows[perm[i] + 1]],
         train |-> [i \in 1..n |-> rows[perm[i] + 1]]]

train_test_split(rows, seed) ==
    LET n      == Len(rows)
        n_test == NTest(n)
        perm   == random_sample(n, n, seed)
    IN  [test  |-> [i \in 1..n_test |-> rows[perm[i] + 1]],
         train |-> [i \in 1..(n - n_test) |-> rows[perm[n_test + i] + 1]]]

\* ------------------------------------------------- print_random_decoded_entries
\* A variant that decodes the stored ids without filtering the ignore value.
DecodedEntry_NoFilter(dataset, idx) ==
    [idx       |-> idx,
     predicted |-> Decode(dataset[idx + 1].input_ids),
     truth     |-> Decode(dataset[idx + 1].labels)]

DecodedEntry(dataset, idx) ==
    LET input_ids == SelectSeq(dataset[idx + 1].input_ids,
                               LAMBDA input_id : input_id # IGNORE_ID)
    IN  [idx       |-> idx,
         predicted |-> Decode(input_ids),
         truth     |-> Decode(dataset[idx + 1].labels)]

\* Lines 279-296: the report block over the sampled rows.  Decoding raises
\* on an id that is no vocabulary index, after random.sample has drawn.
SampleBlock(dataset, iteration, source_lang, target_lang, log_dir, log_predictions, num_rows, seed) ==
    LET random_indices == random_sample(Len(dataset), num_rows, seed)
        entries == [p \in 1..num_rows |-> DecodedEntry(dataset, random_indices[p])]
    IN  IF \E p \in 1..num_rows :
               \/ entries[p].predicted = DecodeError
               \/ entries[p].truth = DecodeError
        THEN [raised |-> TRUE, error |-> "DecodeError",
              rng    |-> AfterSample(seed, Len(dataset), num_rows)]
        ELSE [raised |-> FALSE,
              rng    |-> AfterSample(seed, Len(dataset), num_rows),
              path   |-> log_dir,
              write  |-> log_predictions,
              block  |-> [kind        |-> "block",
                          iteration   |-> iteration,
                          source_lang |-> source_lang,
                          target_lang |-> target_lang,
                          rows        |-> entries]]

\* A variant that samples as many rows as there are when asked for more.
print_random_decoded_entries_Clamped(dataset, iteration, source_lang, target_lang, log_dir, log_predictions, num_rows, seed) ==
    SampleBlock(dataset, iteration, source_lang, target_lang, log_dir,
                log_predictions,
                IF num_rows > Len(dataset) THEN Len(dataset) ELSE num_rows, seed)

\* A variant that writes to the directory of the current iteration.
print_random_decoded_entries_IterationDir(dataset, iteration, source_lang, target_lang, log_dir, log_predictions, num_rows, seed) ==
    IF num_rows < 0 \/ num_rows > Len(dataset)
    THEN [raised |-> TRUE, error |-> "ValueError: sample", rng |-> seed]
    ELSE SampleBlock(dataset, iteration, source_lang, target_lang,
                     [log_dir EXCEPT !.iteration = iteration],
                     log_predictions, num_rows, seed)

\* The outcome of one call: whether it raised, and if not the block that is
\* printed and, with log_predictions, appended to log_dir + "/predictions.txt".
\* random.sample raises ValueError unless 0 <= num_rows <= len(dataset), and
\* has drawn nothing then.
print_random_decoded_entries(dataset, iteration, source_lang, target_lang, log_dir, log_predictions, num_rows, seed) ==
    IF num_rows < 0 \/ num_rows > Len(dataset)
    THEN [raised |-> TRUE, error |-> "ValueError: sample", rng |-> seed]
    ELSE SampleBlock(dataset, iteration, source_lang, target_lang, log_dir,
                     log_predictions, num_rows, seed)

\* ------------------------------------------------------------------- state
VARIABLES
    pc,                               \* the statement block train_model is at
    iterations, num_epochs,           \* arguments of train_model
    parallel_data,                    \* argument: the raw parallel corpus
    source_data, target_data,         \* arguments, then their tokenized form
    source_to_target_data,            \* authentic corpus, source -> target
    target_to_source_data,            \* authentic corpus, target -> source
    source_to_target_model,           \* weights of the A->B model
    target_to_source_model,           \* weights of the B->A model
    source_to_target_trainer,
    target_to_source_trainer,
    source_to_target_log_dir,
    target_to_source_log_dir,
    iteration,                        \* the loop variable
    synthetic_source_data,            \* predictions of the B->A model
    synthetic_source_to_target_data,
    combined_source_to_target_data,
    synthetic_target_data,            \* predictions of the A->B model
    synthetic_target_to_source_data,
    combined_target_to_source_data,
    files,                            \* predictions.txt of every logging dir
    stdout,                           \* what print() has written
    calls,                            \* calls made to the trainers, in order
    error,                            \* the exception that ended the run
    returned,                         \* the value train_model returned
    batch,                            \* batch handed to fix_attention_mask
    applied,                          \* times fix_attention_mask was applied
    corpus,                           \* corpus handed to the sample inspector
    sample_args,                      \* its other arguments
    rng,                              \* state of Python's random module
    loader,                           \* the corpus loader that is running
    row_cap,                          \* its argument n
    opened,                           \* the lines of the files it has opened
    line_index,                       \* lines it has consumed so far
    yielded                           \* the Examples it has yielded so far

vars == <<pc, iterations, num_epochs, parallel_data, source_data, target_data,
          source_to_target_data, target_to_source_data,
          source_to_target_model, target_to_source_model,
          source_to_target_trainer, target_to_source_trainer,
          source_to_target_log_dir, target_to_source_log_dir, iteration,
          synthetic_source_data, synthetic_source_to_target_data,
          combined_source_to_target_data, synthetic_target_data,
          synthetic_target_to_source_data, combined_target_to_source_data,
          files, stdout, calls, error, returned,
          batch, applied, corpus, sample_args, rng,
          loader, row_cap, opened, line_index, yielded>>

\* The state of a running corpus loader.
load_vars == <<loader, row_cap, opened, line_index, yielded>>

\* The state of a direct call of a helper, untouched by train_model.
helper_vars == <<batch, applied, corpus, sample_args, load_vars>>

\* The locals of train_model, untouched by a direct call of a helper.
train_vars == <<iterations, num_epochs, parallel_data, source_data, target_data,
                source_to_target_data, target_to_source_data,
                source_to_target_model, target_to_source_model,
                source_to_target_trainer, target_to_source_trainer,
                source_to_target_log_dir, target_to_source_log_dir, iteration,
                synthetic_source_data, synthetic_source_to_target_data,
                combined_source_to_target_data, synthetic_target_data,
                synthetic_target_to_source_data, combined_target_to_source_data,
                calls, returned>>

\* A name that is not bound yet (a Python local before its first assignment).
Unbound == [unbound |-> TRUE]

\* No corpus loader is running.
LoadIdle ==
    /\ loader = "none" /\ row_cap = 0 /\ opened = Unbound
    /\ line_index = 0 /\ yielded = <<>>

\* ------------------------------------------------------------------ inputs
RawRow(src, tgt) ==
    [src |-> src, tgt |-> tgt, input_ids |-> None, attention_mask |-> None,
     labels |-> None]

\* Row i of the parallel corpus and of the two monolingual corpora.
ParallelRows(n) == [i \in 1..n |-> RawRow(<<10 + i>>, <<20 + i, 20 + i>>)]
MonoSourceRows(n) == [i \in 1..n |-> RawRow(<<30 + i>>, None)]
MonoTargetRows(n) == [i \in 1..n |-> RawRow(None, <<50 + i, 50 + i>>)]

MonoSizes == {DEFAULT_NUM_ROWS - 1, MaxMonoRows}

ParallelSizes == {1, MaxParallelRows}

\* The values of num_epochs the script's comments name (lines 503-505).
EpochChoices == {3, 5}

\* States of a freshly seeded random generator.
Seeds == 0..(MaxSeed - 1)

LogDir(name, i) == [dir |-> name, iteration |-> i]
LogDirs == {LogDir(d, i) : d \in {SOURCE_TO_TARGET, TARGET_TO_SOURCE},
                           i \in 0..MaxIterations}

InitialModel(name) == [name |-> name, updates |-> 0, epochs |-> 0]

Init ==
    /\ pc = "INIT"
    /\ iterations \in 0..MaxIterations
    /\ num_epochs \in EpochChoices
    /\ \E n \in ParallelSizes : parallel_data = ParallelRows(n)
    /\ \E n \in MonoSizes : source_data = MonoSourceRows(n)
    /\ \E n \in MonoSizes : target_data = MonoTargetRows(n)
    /\ source_to_target_data = Unbound
    /\ target_to_source_data = Unbound
    /\ source_to_target_model = InitialModel(SOURCE_TO_TARGET)
    /\ target_to_source_model = InitialModel(TARGET_TO_SOURCE)
    /\ source_to_target_trainer = Unbound
    /\ target_to_source_trainer = Unbound
    /\ source_to_target_log_dir = Unbound
    /\ target_to_source_log_dir = Unbound
    /\ iteration = 0
    /\ synthetic_source_data = Unbound
    /\ synthetic_source_to_target_data = Unbound
    /\ combined_source_to_target_data = Unbound
    /\ synthetic_target_data = Unbound
    /\ synthetic_target_to_source_data = Unbound
    /\ combined_target_to_source_data = Unbound
    /\ files = [d \in LogDirs |-> <<>>]
    /\ stdout = <<>>
    /\ calls = <<>>
    /\ error = "none"
    /\ returned = Unbound
    /\ batch = <<>>
    /\ applied = 0
    /\ corpus = <<>>
    /\ sample_args = Unbound
    /\ rng \in Seeds
    /\ LoadIdle

\* --------------------------------------------------------- external services
\* A variant that binds every trainer to the target -> source model.
Seq2SeqTrainer_AlwaysTargetToSource(model_name, epochs, output_dir, logging_dir, split) ==
    [model            |-> TARGET_TO_SOURCE,
     num_train_epochs |-> epochs,
     output_dir       |-> output_dir,
     logging_dir      |-> logging_dir,
     train_dataset    |-> split.train,
     eval_dataset     |-> split.test]

\* A variant that gives every trainer the epochs of the warm-up.
Seq2SeqTrainer_WarmupEpochs(model_name, epochs, output_dir, logging_dir, split) ==
    [model            |-> model_name,
     num_train_epochs |-> WARMUP_EPOCHS,
     output_dir       |-> output_dir,
     logging_dir      |-> logging_dir,
     train_dataset    |-> split.train,
     eval_dataset     |-> split.test]

\* Seq2SeqTrainer(model=..., args=..., train_dataset=..., eval_dataset=...)
Seq2SeqTrainer(model_name, epochs, output_dir, logging_dir, split) ==
    [model            |-> model_name,
     num_train_epochs |-> epochs,
     output_dir       |-> output_dir,
     logging_dir      |-> logging_dir,
     train_dataset    |-> split.train,
     eval_dataset     |-> split.test]

\* A variant in which the trainer trains a copy of the model.
Train_OnCopy(model, trainer) == model

\* trainer.train(): the trainer's model is updated in place.
Train(model, trainer) ==
    [model EXCEPT !.updates = @ + 1, !.epochs = @ + trainer.num_train_epochs]

TrainCall(model, trainer, i) ==
    [op               |-> "train",
     model            |-> trainer.model,
     updates          |-> model.updates,
     num_train_epochs |-> trainer.num_train_epochs,
     logging_dir      |-> trainer.logging_dir,
     train_rows       |-> Len(trainer.train_dataset),
     eval_rows        |-> Len(trainer.eval_dataset),
     iteration        |-> i]

PredictCall(model, trainer, test_dataset, max_length, predictions, i) ==
    [op          |-> "predict",
     model       |-> trainer.model,
     updates     |-> model.updates,
     rows        |-> Len(test_dataset),
     max_length  |-> max_length,
     predictions |-> Len(predictions),
     iteration   |-> i]

\* One generated id sequence, as trainer.predict pads it: the decoder start
\* id (the pad id), the generated words, the end-of-sequence id, then pad ids
\* inside a batch and the ignore value across batches.  `g` selects the
\* behaviour of the generating model.
Generated(g, word) ==
    CASE g = 1 -> <<PAD_ID, word, EOS_ID, IGNORE_ID>>
      [] g = 2 -> <<PAD_ID, word, word, EOS_ID>>
      [] g = 3 -> <<PAD_ID, word, EOS_ID, PAD_ID>>
      [] OTHER -> <<PAD_ID, EOS_ID, PAD_ID, IGNORE_ID>>

\* trainer.predict(test_dataset=..., max_length=...).predictions.tolist():
\* `count` sequences, none longer than max_length.
Predictions(test_dataset, max_length, g, count) ==
    [i \in 1..count |->
        LET word == IF i <= Len(test_dataset)
                    THEN 100 + test_dataset[i].input_ids[1] ELSE 100
            ids  == Generated(g, word)
        IN  SubSeq(ids, 1, IF Len(ids) < max_length THEN Len(ids) ELSE max_length)]

\* The numbers of sequences a predict call over n rows may hand back.
PredictionCounts(n) == {c \in {n - 1, n, n + 1} : c >= 0}

\* dataset.rename_column("input_ids", "labels"): the ids become the labels
\* and the dataset has no input_ids column any more.
rename_column(dataset) ==
    [i \in 1..Len(dataset) |->
        [dataset[i] EXCEPT !.labels = dataset[i].input_ids, !.input_ids = None]]

\* dataset.rename_column("input_ids", "labels").add_column("input_ids", column)
\* followed by the two cast_column calls, which change the storage width of
\* the ids and none of their values.  add_column raises when the column and
\* the dataset differ in length; the local then holds the renamed dataset.
\* A variant that pairs rows and sequences up to the shorter of the two.
SyntheticPairs_Truncating(dataset, column) ==
    [raised |-> FALSE,
     rows   |-> [i \in 1..(IF Len(column) < Len(dataset)
                           THEN Len(column) ELSE Len(dataset)) |->
                    [dataset[i] EXCEPT !.labels = dataset[i].input_ids,
                                       !.input_ids = column[i]]]]

\* A variant that attaches the sequences in reverse order.
SyntheticPairs_Reversed(dataset, column) ==
    IF Len(column) # Len(dataset)
    THEN [raised |-> TRUE, rows |-> rename_column(dataset)]
    ELSE [raised |-> FALSE,
          rows   |-> [i \in 1..Len(dataset) |->
                         [dataset[i] EXCEPT !.labels = dataset[i].input_ids,
                                            !.input_ids = column[Len(column) + 1 - i]]]]

SyntheticPairs(dataset, column) ==
    IF Len(column) # Len(dataset)
    THEN [raised |-> TRUE, rows |-> rename_column(dataset)]
    ELSE [raised |-> FALSE,
          rows   |-> [i \in 1..Len(dataset) |->
                         [dataset[i] EXCEPT !.labels = dataset[i].input_ids,
                                            !.input_ids = column[i]]]]

\* A variant that appends the new rows to the corpus merged before.
concatenate_datasets_OntoEarlier(a, b) ==
    LET earlier == IF b[1].src = None THEN combined_source_to_target_data
                                      ELSE combined_target_to_source_data
    IN  IF "train" \in DOMAIN earlier
        THEN earlier.train \o earlier.test \o b
        ELSE a \o b

\* concatenate_datasets([a, b])
concatenate_datasets(a, b) == a \o b

Printed(kind, i, from_lang, to_lang) ==
    [kind |-> kind, iteration |-> i, source_lang |-> from_lang,
     target_lang |-> to_lang]

Abort(exception) ==
    /\ pc' = "ABORTED"
    /\ error' = exception


\* ------------------------------------------------------------- train_model
\* Lines 50-98: tokenize the parallel corpus in both directions and the two
\* monolingual corpora.
Preprocess ==
    /\ pc = "INIT"
    /\ UNCHANGED <<helper_vars, rng>>
    /\ source_to_target_data' =
           preprocess_source_to_target(parallel_data, "src", "tgt", PREPROCESS_MAX_LEN)
    /\ target_to_source_data' =
           preprocess_source_to_target(source_to_target_data', "tgt", "src", PREPROCESS_MAX_LEN)
    /\ source_data' = preprocess_source_function(source_data, PREPROCESS_MAX_LEN)
    /\ target_data' = preprocess_target_function(target_data, PREPROCESS_MAX_LEN)
    /\ pc' = "WARMUP_TRAIN"
    /\ UNCHANGED <<iterations, num_epochs, parallel_data,
                   source_to_target_model, target_to_source_model,
                   source_to_target_trainer, target_to_source_trainer,
                   source_to_target_log_dir, target_to_source_log_dir, iteration,
                   synthetic_source_data, synthetic_source_to_target_data,
                   combined_source_to_target_data, synthetic_target_data,
                   synthetic_target_to_source_data, combined_target_to_source_data,
                   files, stdout, calls, error, returned>>

\* Lines 101-135: split the authentic target -> source corpus, build the first
\* trainer and train the target -> source model.
WarmupTrain ==
    /\ pc = "WARMUP_TRAIN"
    /\ UNCHANGED <<helper_vars, rng>>
    /\ target_to_source_log_dir' = LogDir(TARGET_TO_SOURCE, 0)
    /\ IF SplitRaises(target_to_source_data)
       THEN /\ Abort("ValueError: train_test_split")
            /\ UNCHANGED <<combined_target_to_source_data, target_to_source_trainer,
                           target_to_source_model, stdout, calls>>
       ELSE \E seed \in Seeds :
            /\ combined_target_to_source_data' =
                   train_test_split(target_to_source_data, seed)
            /\ target_to_source_trainer' =
                   Seq2SeqTrainer(TARGET_TO_SOURCE, WARMUP_EPOCHS,
                                  LogDir("target_to_source_models", 0),
                                  target_to_source_log_dir',
                                  combined_target_to_source_data')
            /\ stdout' = Append(stdout, Printed("Training", 0, "tgt", "src"))
            /\ calls' = Append(calls, TrainCall(target_to_source_model,
                                                target_to_source_trainer', 0))
            /\ target_to_source_model' =
                   Train(target_to_source_model, target_to_source_trainer')
            /\ pc' = "LOOP"
            /\ UNCHANGED error
    /\ UNCHANGED <<iterations, num_epochs, parallel_data, source_data, target_data,
                   source_to_target_data, target_to_source_data,
                   source_to_target_model, source_to_target_trainer,
                   source_to_target_log_dir, iteration,
                   synthetic_source_data, synthetic_source_to_target_data,
                   combined_source_to_target_data, synthetic_target_data,
                   synthetic_target_to_source_data, files, returned>>

\* range(1, iterations + 1) with an upper end one too small.
LoopRange_OneShort(n) == 1..(n - 1)

\* range(1, iterations + 1) with an upper end one too large.
LoopRange_OneMore(n) == 1..(n + 1)

\* range(1, iterations + 1)
LoopRange(n) == 1..n

\* Line 137: the head of the for loop.
ForLoop ==
    /\ pc = "LOOP"
    /\ UNCHANGED <<helper_vars, rng>>
    /\ IF iteration + 1 \in LoopRange(iterations)
       THEN /\ iteration' = iteration + 1
            /\ pc' = "GENERATE_SOURCE"
       ELSE /\ pc' = "RETURN"
            /\ UNCHANGED iteration
    /\ UNCHANGED <<iterations, num_epochs, parallel_data, source_data, target_data,
                   source_to_target_data, target_to_source_data,
                   source_to_target_model, target_to_source_model,
                   source_to_target_trainer, target_to_source_trainer,
                   source_to_target_log_dir, target_to_source_log_dir,
                   synthetic_source_data, synthetic_source_to_target_data,
                   combined_source_to_target_data, synthetic_target_data,
                   synthetic_target_to_source_data, combined_target_to_source_data,
                   files, stdout, calls, error, returned>>

\* Lines 138-144: the target -> source trainer generates synthetic source
\* text from the monolingual target corpus.
GenerateSyntheticSource ==
    /\ pc = "GENERATE_SOURCE"
    /\ UNCHANGED <<helper_vars, rng>>
    /\ stdout' = Append(stdout, Printed("Generating", iteration, "src", "tgt"))
    /\ \E g \in 1..MaxGen, count \in PredictionCounts(Len(target_data)) :
           synthetic_source_data' =
               Predictions(target_data, PREDICT_MAX_LEN, g, count)
    /\ calls' = Append(calls, PredictCall(target_to_source_model,
                                          target_to_source_trainer,
                                          target_data, PREDICT_MAX_LEN,
                                          synthetic_source_data', iteration))
    /\ pc' = "BUILD_SOURCE_TO_TARGET"
    /\ UNCHANGED <<iterations, num_epochs, parallel_data, source_data, target_data,
                   source_to_target_data, target_to_source_data,
                   source_to_target_model, target_to_source_model,
                   source_to_target_trainer, target_to_source_trainer,
                   source_to_target_log_dir, target_to_source_log_dir, iteration,
                   synthetic_source_to_target_data,
                   combined_source_to_target_data, synthetic_target_data,
                   synthetic_target_to_source_data, combined_target_to_source_data,
                   files, error, returned>>

\* Lines 147-160: the monolingual target ids become the labels, the generated
\* ids the input_ids.  When add_column raises, the renaming has been done.
BuildSyntheticSourceToTarget ==
    /\ pc = "BUILD_SOURCE_TO_TARGET"
    /\ UNCHANGED <<helper_vars, rng>>
    /\ LET built == SyntheticPairs(target_data, synthetic_source_data)
       IN  IF built.raised
           THEN /\ Abort("ValueError: add_column")
                /\ synthetic_source_to_target_data' = built.rows
           ELSE /\ synthetic_source_to_target_data' = built.rows
                /\ pc' = "LOG_SOURCE_TO_TARGET"
                /\ UNCHANGED error
    /\ UNCHANGED <<iterations, num_epochs, parallel_data, source_data, target_data,
                   source_to_target_data, target_to_source_data,
                   source_to_target_model, target_to_source_model,
                   source_to_target_trainer, target_to_source_trainer,
                   source_to_target_log_dir, target_to_source_log_dir, iteration,
                   synthetic_source_data,
                   combined_source_to_target_data, synthetic_target_data,
                   synthetic_target_to_source_data, combined_target_to_source_data,
                   files, stdout, calls, returned>>

\* Line 162: sample the synthetic corpus into the log of the generating model.
LogSyntheticSourceToTarget ==
    /\ pc = "LOG_SOURCE_TO_TARGET"
    /\ UNCHANGED helper_vars
    /\ LET out == print_random_decoded_entries(
                      synthetic_source_to_target_data, iteration, "src", "tgt",
                      target_to_source_log_dir, TRUE, DEFAULT_NUM_ROWS, rng)
       IN  IF out.raised
           THEN /\ Abort(out.error)
                /\ rng' = out.rng
                /\ UNCHANGED <<stdout, files>>
           ELSE /\ stdout' = Append(stdout, out.block)
                /\ files' = IF out.write
                            THEN [files EXCEPT ![out.path] = Append(@, out.block)]
                            ELSE files
                /\ rng' = out.rng
                /\ pc' = "MERGE_SOURCE_TO_TARGET"
                /\ UNCHANGED error
    /\ UNCHANGED <<iterations, num_epochs, parallel_data, source_data, target_data,
                   source_to_target_data, target_to_source_data,
                   source_to_target_model, target_to_source_model,
                   source_to_target_trainer, target_to_source_trainer,
                   source_to_target_log_dir, target_to_source_log_dir, iteration,
                   synthetic_source_data, synthetic_source_to_target_data,
                   combined_source_to_target_data, synthetic_target_data,
                   synthetic_target_to_source_data, combined_target_to_source_data,
                   calls, returned>>

\* Lines 164-175: concatenate authentic and synthetic rows, repair the masks
\* and split.
MergeSourceToTarget ==
    /\ pc = "MERGE_SOURCE_TO_TARGET"
    /\ UNCHANGED <<helper_vars, rng>>
    /\ LET merged == fix_attention_mask(
                         concatenate_datasets(source_to_target_data,
                                              synthetic_source_to_target_data))
       IN  IF SplitRaises(merged)
           THEN /\ Abort("ValueError: train_test_split")
                /\ UNCHANGED combined_source_to_target_data
           ELSE /\ \E seed \in Seeds :
                       combined_source_to_target_data' = train_test_split(merged, seed)
                /\ pc' = "TRAIN_SOURCE_TO_TARGET"
                /\ UNCHANGED error
    /\ UNCHANGED <<iterations, num_epochs, parallel_data, source_data, target_data,
                   source_to_target_data, target_to_source_data,
                   source_to_target_model, target_to_source_model,
                   source_to_target_trainer, target_to_source_trainer,
                   source_to_target_log_dir, target_to_source_log_dir, iteration,
                   synthetic_source_data, synthetic_source_to_target_data,
                   synthetic_target_data,
                   synthetic_target_to_source_data, combined_target_to_source_data,
                   files, stdout, calls, returned>>

\* Lines 177-206: build the source -> target trainer and train.
TrainSourceToTarget ==
    /\ pc = "TRAIN_SOURCE_TO_TARGET"
    /\ UNCHANGED <<helper_vars, rng>>
    /\ source_to_target_log_dir' = LogDir(SOURCE_TO_TARGET, iteration)
    /\ source_to_target_trainer' =
           Seq2SeqTrainer(SOURCE_TO_TARGET, num_epochs,
                          LogDir("source_to_target_models", iteration),
                          source_to_target_log_dir',
                          combined_source_to_target_data)
    /\ stdout' = Append(stdout, Printed("Training", iteration, "src", "tgt"))
    /\ calls' = Append(calls, TrainCall(source_to_target_model,
                                        source_to_target_trainer', iteration))
    /\ source_to_target_model' =
           Train(source_to_target_model, source_to_target_trainer')
    /\ pc' = "GENERATE_TARGET"
    /\ UNCHANGED <<iterations, num_epochs, parallel_data, source_data, target_data,
                   source_to_target_data, target_to_source_data,
                   target_to_source_model, target_to_source_trainer,
                   target_to_source_log_dir, iteration,
                   synthetic_source_data, synthetic_source_to_target_data,
                   combined_source_to_target_data, synthetic_target_data,
                   synthetic_target_to_source_data, combined_target_to_source_data,
                   files, error, returned>>

\* Lines 208-214: the source -> target trainer generates synthetic target
\* text from the monolingual source corpus.
GenerateSyntheticTarget ==
    /\ pc = "GENERATE_TARGET"
    /\ UNCHANGED <<helper_vars, rng>>
    /\ stdout' = Append(stdout, Printed("Generating", iteration, "tgt", "src"))
    /\ \E g \in 1..MaxGen, count \in PredictionCounts(Len(source_data)) :
           synthetic_target_data' =
               Predictions(source_data, PREDICT_MAX_LEN, g, count)
    /\ calls' = Append(calls, PredictCall(source_to_target_model,
                                          source_to_target_trainer,
                                          source_data, PREDICT_MAX_LEN,
                                          synthetic_target_data', iteration))
    /\ pc' = "BUILD_TARGET_TO_SOURCE"
    /\ UNCHANGED <<iterations, num_epochs, parallel_data, target_data, source_data,
                   target_to_source_data, source_to_target_data,
                   target_to_source_model, source_to_target_model,
                   target_to_source_trainer, source_to_target_trainer,
                   target_to_source_log_dir, source_to_target_log_dir, iteration,
                   synthetic_target_to_source_data,
                   combined_target_to_source_data, synthetic_source_data,
                   synthetic_source_to_target_data, combined_source_to_target_data,
                   files, error, returned>>

\* Lines 216-228: the monolingual source ids become the labels, the generated
\* ids the input_ids.  When add_column raises, the renaming has been done.
BuildSyntheticTargetToSource ==
    /\ pc = "BUILD_TARGET_TO_SOURCE"
    /\ UNCHANGED <<helper_vars, rng>>
    /\ LET built == SyntheticPairs(source_data, synthetic_target_data)
       IN  IF built.raised
           THEN /\ Abort("ValueError: add_column")
                /\ synthetic_target_to_source_data' = built.rows
           ELSE /\ synthetic_target_to_source_data' = built.rows
                /\ pc' = "LOG_TARGET_TO_SOURCE"
                /\ UNCHANGED error
    /\ UNCHANGED <<iterations, num_epochs, parallel_data, target_data, source_data,
                   target_to_source_data, source_to_target_data,
                   target_to_source_model, source_to_target_model,
                   target_to_source_trainer, source_to_target_trainer,
                   target_to_source_log_dir, source_to_target_log_dir, iteration,
                   synthetic_target_data,
                   combined_target_to_source_data, synthetic_source_data,
                   synthetic_source_to_target_data, combined_source_to_target_data,
                   files, stdout, calls, returned>>

\* Line 230: sample the synthetic corpus into the log of the generating model.
LogSyntheticTargetToSource ==
    /\ pc = "LOG_TARGET_TO_SOURCE"
    /\ UNCHANGED helper_vars
    /\ LET out == print_random_decoded_entries(
                      synthetic_target_to_source_data, iteration, "tgt", "src",
                      source_to_target_log_dir, TRUE, DEFAULT_NUM_ROWS, rng)
       IN  IF out.raised
           THEN /\ Abort(out.error)
                /\ rng' = out.rng
                /\ UNCHANGED <<stdout, files>>
           ELSE /\ stdout' = Append(stdout, out.block)
                /\ files' = IF out.write
                            THEN [files EXCEPT ![out.path] = Append(@, out.block)]
                            ELSE files
                /\ rng' = out.rng
                /\ pc' = "MERGE_TARGET_TO_SOURCE"
                /\ UNCHANGED error
    /\ UNCHANGED <<iterations, num_epochs, parallel_data, target_data, source_data,
                   target_to_source_data, source_to_target_data,
                   target_to_source_model, source_to_target_model,
                   target_to_source_trainer, source_to_target_trainer,
                   target_to_source_log_dir, source_to_target_log_dir, iteration,
                   synthetic_target_data, synthetic_target_to_source_data,
                   combined_target_to_source_data, synthetic_source_data,
                   synthetic_source_to_target_data, combined_source_to_target_data,
                   calls, returned>>

\* Lines 232-242: concatenate authentic and synthetic rows, repair the masks
\* and split.
MergeTargetToSource ==
    /\ pc = "MERGE_TARGET_TO_SOURCE"
    /\ UNCHANGED <<helper_vars, rng>>
    /\ LET merged == fix_attention_mask(
                         concatenate_datasets(target_to_source_data,
                                              synthetic_target_to_source_data))
       IN  IF SplitRaises(merged)
           THEN /\ Abort("ValueError: train_test_split")
                /\ UNCHANGED combined_target_to_source_data
           ELSE /\ \E seed \in Seeds :
                       combined_target_to_source_data' = train_test_split(merged, seed)
                /\ pc' = "TRAIN_TARGET_TO_SOURCE"
                /\ UNCHANGED error
    /\ UNCHANGED <<iterations, num_epochs, parallel_data, target_data, source_data,
                   target_to_source_data, source_to_target_data,
                   target_to_source_model, source_to_target_model,
                   target_to_source_trainer, source_to_target_trainer,
                   target_to_source_log_dir, source_to_target_log_dir, iteration,
                   synthetic_target_data, synthetic_target_to_source_data,
                   synthetic_source_data,
                   synthetic_source_to_target_data, combined_source_to_target_data,
                   files, stdout, calls, returned>>

\* Lines 244-273: build the target -> source trainer and train.
TrainTargetToSource ==
    /\ pc = "TRAIN_TARGET_TO_SOURCE"
    /\ UNCHANGED <<helper_vars, rng>>
    /\ target_to_source_log_dir' = LogDir(TARGET_TO_SOURCE, iteration)
    /\ target_to_source_trainer' =
           Seq2SeqTrainer(TARGET_TO_SOURCE, num_epochs,
                          LogDir("target_to_source_models", iteration),
                          target_to_source_log_dir',
                          combined_target_to_source_data)
    \* line 270 prints `iterations`, not the loop variable
    /\ stdout' = Append(stdout, Printed("Training", iterations, "tgt", "src"))
    /\ calls' = Append(calls, TrainCall(target_to_source_model,
                                        target_to_source_trainer', iteration))
    /\ target_to_source_model' =
           Train(target_to_source_model, target_to_source_trainer')
    /\ pc' = "LOOP"
    /\ UNCHANGED <<iterations, num_epochs, parallel_data, target_data, source_data,
                   target_to_source_data, source_to_target_data,
                   source_to_target_model, source_to_target_trainer,
                   source_to_target_log_dir, iteration,
                   synthetic_target_data, synthetic_target_to_source_data,
                   combined_target_to_source_data, synthetic_source_data,
                   synthetic_source_to_target_data, combined_source_to_target_data,
                   files, error, returned>>

\* Line 275: return both models (a pair, here with its positions named).
Return ==
    /\ pc = "RETURN"
    /\ UNCHANGED <<helper_vars, rng>>
    /\ returned' = [first  |-> source_to_target_model,
                    second |-> target_to_source_model]
    /\ pc' = "DONE"
    /\ UNCHANGED <<iterations, num_epochs, parallel_data, source_data, target_data,
                   source_to_target_data, target_to_source_data,
                   source_to_target_model, target_to_source_model,
                   source_to_target_trainer, target_to_source_trainer,
                   source_to_target_log_dir, target_to_source_log_dir, iteration,
                   synthetic_source_data, synthetic_source_to_target_data,
                   combined_source_to_target_data, synthetic_target_data,
                   synthetic_target_to_source_data, combined_target_to_source_data,
                   files, stdout, calls, error>>

Next ==
    \/ Preprocess
    \/ WarmupTrain
    \/ ForLoop
    \/ GenerateSyntheticSource
    \/ BuildSyntheticSourceToTarget
    \/ LogSyntheticSourceToTarget
    \/ MergeSourceToTarget
    \/ TrainSourceToTarget
    \/ GenerateSyntheticTarget
    \/ BuildSyntheticTargetToSource
    \/ LogSyntheticTargetToSource
    \/ MergeTargetToSource
    \/ TrainTargetToSource
    \/ Return

Spec == Init /\ [][Next]_vars

\* ------------------------------------------- direct calls of the two helpers
\* Id sequences a caller may hand in: any mix of pad, ignore and word ids,
\* the word at position p being 6 + p.
RECURSIVE IdSeqs(_)
IdSeqs(len) ==
    IF len = 0 THEN {<<>>}
    ELSE IdSeqs(len - 1) \cup
         {Append(ids, x) : ids \in {s \in IdSeqs(len - 1) : Len(s) = len - 1},
                           x \in {PAD_ID, IGNORE_ID, 6 + len}}

\* Rows of an encoded corpus whose mask does not match the ids yet.
EncodedRow(ids, word) ==
    [src |-> None, tgt |-> <<word>>, input_ids |-> ids,
     attention_mask |-> <<0>> \o Ones(ids), labels |-> <<word, EOS_ID>>]

Batches ==
    UNION {[1..n -> {EncodedRow(ids, 9) : ids \in IdSeqs(MaxFnLen)}] :
              n \in 0..MaxFnRows}

\* Corpora whose rows differ in their labels and share their input_ids.
SampleCorpora ==
    {[i \in 1..n |-> EncodedRow(ids, 9 + i)] :
        n \in 0..MaxFnRows, ids \in IdSeqs(MaxFnLen)}

\* train_model is not running during a direct call of a helper.
TrainIdle ==
    /\ iterations = 0 /\ num_epochs = 1 /\ iteration = 0
    /\ parallel_data = <<>> /\ source_data = <<>> /\ target_data = <<>>
    /\ source_to_target_data = Unbound
    /\ target_to_source_data = Unbound
    /\ source_to_target_model = InitialModel(SOURCE_TO_TARGET)
    /\ target_to_source_model = InitialModel(TARGET_TO_SOURCE)
    /\ source_to_target_trainer = Unbound
    /\ target_to_source_trainer = Unbound
    /\ source_to_target_log_dir = Unbound
    /\ target_to_source_log_dir = Unbound
    /\ synthetic_source_data = Unbound
    /\ synthetic_source_to_target_data = Unbound
    /\ combined_source_to_target_data = Unbound
    /\ synthetic_target_data = Unbound
    /\ synthetic_target_to_source_data = Unbound
    /\ combined_target_to_source_data = Unbound
    /\ calls = <<>>
    /\ returned = Unbound

InitFix ==
    /\ pc = "FIX"
    /\ batch \in Batches
    /\ applied = 0
    /\ corpus = batch
    /\ sample_args = Unbound
    /\ rng = 0
    /\ files = [d \in LogDirs |-> <<>>]
    /\ stdout = <<>>
    /\ error = "none"
    /\ TrainIdle
    /\ LoadIdle

ApplyFix ==
    /\ pc = "FIX"
    /\ applied < MaxApplications
    /\ batch' = fix_attention_mask(batch)
    /\ applied' = applied + 1
    /\ UNCHANGED <<pc, corpus, sample_args, rng, files, stdout, error>>
    /\ UNCHANGED <<train_vars, load_vars>>

NextFix == ApplyFix

SpecFix == InitFix /\ [][NextFix]_vars

\* print_random_decoded_entries(corpus, tokenizer, iteration, ..., log_dir,
\* log_predictions, num_rows) called on its own.
InitSample ==
    /\ pc = "SAMPLE"
    /\ corpus \in SampleCorpora
    /\ batch = corpus
    /\ applied = 0
    /\ sample_args \in [iteration       : {1},
                        log_dir         : {LogDir(TARGET_TO_SOURCE, 0)},
                        log_predictions : BOOLEAN,
                        num_rows        : 0..(MaxFnRows + 1)]
    /\ rng \in 0..(MaxFnSeed - 1)
    /\ files = [d \in LogDirs |-> <<>>]
    /\ stdout = <<>>
    /\ error = "none"
    /\ TrainIdle
    /\ LoadIdle

CallSample ==
    /\ pc = "SAMPLE"
    /\ LET out == print_random_decoded_entries(
                      corpus, sample_args.iteration, "src", "tgt",
                      sample_args.log_dir, sample_args.log_predictions,
                      sample_args.num_rows, rng)
       IN  IF out.raised
           THEN /\ pc' = "SAMPLE_RAISED"
                /\ error' = out.error
                /\ rng' = out.rng
                /\ UNCHANGED <<stdout, files>>
           ELSE /\ stdout' = Append(stdout, out.block)
                /\ files' = IF out.write
                            THEN [files EXCEPT ![out.path] = Append(@, out.block)]
                            ELSE files
                /\ rng' = out.rng
                /\ pc' = "SAMPLE_DONE"
                /\ UNCHANGED error
    /\ UNCHANGED <<batch, applied, corpus, sample_args>>
    /\ UNCHANGED <<train_vars, load_vars>>

NextSample == CallSample

SpecSample == InitSample /\ [][NextSample]_vars

\* ------------------------------------------------------------ corpus loaders
\* A line of text is a sequence of characters; str.strip() removes the
\* whitespace at both of its ends.
SPACE == " "
NEWLINE == "\n"
Whitespace == {SPACE, NEWLINE}

RECURSIVE LStrip(_)
LStrip(text) ==
    IF text # <<>> /\ text[1] \in Whitespace THEN LStrip(Tail(text)) ELSE text

RECURSIVE RStrip(_)
RStrip(text) ==
    IF text # <<>> /\ text[Len(text)] \in Whitespace
    THEN RStrip(SubSeq(text, 1, Len(text) - 1)) ELSE text

\* str.strip()
Strip(text) == RStrip(LStrip(text))

\* print("empty string found")
Notice == [kind |-> "notice", text |-> "empty string found"]

\* A variant that stops one line early.
CapReached_OneEarly(index, cap) == index + 1 >= cap

\* if i >= n: break
CapReached(index, cap) == index >= cap

\* The fields csv.reader hands back: an empty field, a blank one, a word
\* followed by a space.
CsvFields == {<<>>, <<SPACE>>, <<"a", SPACE>>}

\* The rows csv.reader hands back: an empty line gives no field at all, a line
\* without a comma one field.
CsvRows ==
    {<<>>} \cup {<<f>> : f \in CsvFields}
           \cup {<<f, g>> : f \in CsvFields, g \in CsvFields}
           \cup {<<<<"a">>, <<"b">>, <<"c">>>>}

\* The lines iterating over a text file hands back, each with its newline.
TextLines == {<<NEWLINE>>, <<SPACE, NEWLINE>>, <<"a", NEWLINE>>,
              <<SPACE, "b", SPACE, NEWLINE>>}

FilesOf(lines, max) == UNION {[1..k -> lines] : k \in 0..max}

\* n as the callers pass it, and its default.
Caps == 0..(MaxMonoLines + 1) \cup {DEFAULT_N}

InitLoad ==
    /\ pc = "LOAD"
    /\ \/ /\ loader = "yield_csv_lines"
          /\ \E csv_file \in FilesOf(CsvRows, MaxParallelLines) :
                opened = [csv_file |-> csv_file]
          /\ row_cap \in {1, DEFAULT_N}
       \/ /\ loader = "yield_paired_lines"
          /\ \E source_text_file \in FilesOf(TextLines, MaxParallelLines),
                target_text_file \in FilesOf(TextLines, MaxParallelLines) :
                opened = [source_text_file |-> source_text_file,
                          target_text_file |-> target_text_file]
          /\ row_cap = 0
       \/ /\ loader = "yield_mono_lines"
          /\ \E file \in FilesOf(TextLines, MaxMonoLines) :
                opened = [file |-> file]
          /\ row_cap \in Caps
    /\ line_index = 0
    /\ yielded = <<>>
    /\ batch = <<>> /\ applied = 0 /\ corpus = <<>> /\ sample_args = Unbound
    /\ rng = 0
    /\ files = [d \in LogDirs |-> <<>>]
    /\ stdout = <<>>
    /\ error = "none"
    /\ TrainIdle

\* What a step of a loader leaves alone.
LoadFrame ==
    UNCHANGED <<loader, row_cap, opened, batch, applied, corpus, sample_args,
                rng, files, train_vars>>

\* Lines 359-369, one pass of the loop: line[0] and line[1] raise IndexError
\* on a row that is too short, line[1] being read only when line[0] is not
\* blank.
yield_csv_lines ==
    /\ pc = "LOAD"
    /\ loader = "yield_csv_lines"
    /\ LoadFrame
    /\ IF line_index >= Len(opened.csv_file) \/ CapReached(line_index, row_cap)
       THEN /\ pc' = "LOADED"
            /\ UNCHANGED <<line_index, yielded, stdout, error>>
       ELSE LET line == opened.csv_file[line_index + 1]
            IN  IF Len(line) = 0 \/ (Strip(line[1]) # <<>> /\ Len(line) < 2)
                THEN /\ pc' = "LOAD_RAISED"
                     /\ error' = "IndexError"
                     /\ UNCHANGED <<line_index, yielded, stdout>>
                ELSE /\ line_index' = line_index + 1
                     /\ IF Strip(line[1]) # <<>> /\ Strip(line[2]) # <<>>
                        THEN /\ yielded' = Append(yielded, [src |-> line[1],
                                                            tgt |-> line[2]])
                             /\ UNCHANGED stdout
                        ELSE /\ stdout' = Append(stdout, Notice)
                             /\ UNCHANGED yielded
                     /\ UNCHANGED <<pc, error>>

\* Lines 372-377, one pass of the loop: zip ends with the shorter file.
yield_paired_lines ==
    /\ pc = "LOAD"
    /\ loader = "yield_paired_lines"
    /\ LoadFrame
    /\ IF \/ line_index >= Len(opened.source_text_file)
          \/ line_index >= Len(opened.target_text_file)
       THEN /\ pc' = "LOADED"
            /\ UNCHANGED <<line_index, yielded, stdout, error>>
       ELSE LET source_line == opened.source_text_file[line_index + 1]
                target_line == opened.target_text_file[line_index + 1]
            IN  /\ line_index' = line_index + 1
                /\ yielded' = Append(yielded, [src |-> source_line,
                                               tgt |-> target_line])
                /\ UNCHANGED <<pc, stdout, error>>

\* Lines 380-389, one pass of the loop.
yield_mono_lines ==
    /\ pc = "LOAD"
    /\ loader = "yield_mono_lines"
    /\ LoadFrame
    /\ IF line_index >= Len(opened.file) \/ CapReached(line_index, row_cap)
       THEN /\ pc' = "LOADED"
            /\ UNCHANGED <<line_index, yielded, stdout, error>>
       ELSE LET line == opened.file[line_index + 1]
            IN  /\ line_index' = line_index + 1
                /\ IF Strip(line) # <<>>
                   THEN /\ yielded' = Append(yielded, [src |-> Strip(line)])
                        /\ UNCHANGED stdout
                   ELSE /\ stdout' = Append(stdout, Notice)
                        /\ UNCHANGED yielded
                /\ UNCHANGED <<pc, error>>

NextLoad ==
    \/ yield_csv_lines
    \/ yield_paired_lines
    \/ yield_mono_lines

SpecLoad == InitLoad /\ [][NextLoad]_vars

\* ================================================================== claims
NumCalls(op) == Cardinality({j \in DOMAIN calls : calls[j].op = op})

Blocks(out) == SelectSeq(out, LAMBDA item : item.kind = "block")

RECURSIVE NumBlocksIn(_)
NumBlocksIn(dirs) ==
    IF dirs = {} THEN 0
    ELSE LET d == CHOOSE x \in dirs : TRUE
         IN  Len(files[d]) + NumBlocksIn(dirs \ {d})

\* The number of blocks in all the predictions files together.
NumLoggedBlocks == NumBlocksIn(LogDirs)

SentinelFree(ids) ==
    \A p \in DOMAIN ids : ids[p] # PAD_ID /\ ids[p] # IGNORE_ID

\* C1: a complete run of train_model with iterations = k makes exactly
\* 1 + 2k train calls and exactly 2k predict calls.
C1_PhaseCounts ==
    pc = "DONE" =>
        /\ NumCalls("train") = 1 + 2 * iterations
        /\ NumCalls("predict") = 2 * iterations

C1_Witness ==
    /\ pc = "DONE"
    /\ iterations = 2
    /\ NumCalls("train") = 5
    /\ NumCalls("predict") = 4

\* C2: every predict call is followed by a train call of the model of the
\* opposite direction, and the synthetic rows a trainer holds were generated
\* by the other model: the source -> target trainer holds only synthetic rows
\* with a generated source side (no source text), the target -> source
\* trainer only synthetic rows with a generated target side.
Opposite(name) ==
    IF name = SOURCE_TO_TARGET THEN TARGET_TO_SOURCE ELSE SOURCE_TO_TARGET

IsTrainer(t) == "model" \in DOMAIN t

TrainerRows(t) == t.train_dataset \o t.eval_dataset

C2_OppositeDirections ==
    /\ \A j \in DOMAIN calls :
          (calls[j].op = "predict" /\ j + 1 \in DOMAIN calls) =>
              /\ calls[j + 1].op = "train"
              /\ calls[j + 1].model = Opposite(calls[j].model)
    /\ IsTrainer(source_to_target_trainer) =>
          /\ source_to_target_trainer.model = SOURCE_TO_TARGET
          /\ \A r \in DOMAIN TrainerRows(source_to_target_trainer) :
                TrainerRows(source_to_target_trainer)[r].tgt # None
    /\ IsTrainer(target_to_source_trainer) =>
          /\ target_to_source_trainer.model = TARGET_TO_SOURCE
          /\ \A r \in DOMAIN TrainerRows(target_to_source_trainer) :
                TrainerRows(target_to_source_trainer)[r].src # None

C2_Witness ==
    /\ pc = "DONE"
    /\ iterations = 1
    /\ calls[2].op = "predict" /\ calls[2].model = TARGET_TO_SOURCE
    /\ calls[3].op = "train" /\ calls[3].model = SOURCE_TO_TARGET
    /\ calls[4].op = "predict" /\ calls[4].model = SOURCE_TO_TARGET
    /\ calls[5].op = "train" /\ calls[5].model = TARGET_TO_SOURCE
    /\ \E r \in DOMAIN TrainerRows(source_to_target_trainer) :
          TrainerRows(source_to_target_trainer)[r].src = None
    /\ \E r \in DOMAIN TrainerRows(target_to_source_trainer) :
          TrainerRows(target_to_source_trainer)[r].tgt = None

\* C3: the calls made to the trainers are, in order, the warm-up training of
\* the target -> source model and then for each iteration i = 1..k: predict
\* with target -> source, train source -> target, predict with source ->
\* target, train target -> source; train_model returns only after the last of
\* them, and nothing is called before the corpora are tokenized.
ExpectedOp(j) == IF j = 1 \/ (j - 2) % 2 = 1 THEN "train" ELSE "predict"

ExpectedModel(j) ==
    IF j = 1 \/ (j - 2) % 4 = 0 \/ (j - 2) % 4 = 3
    THEN TARGET_TO_SOURCE ELSE SOURCE_TO_TARGET

ExpectedIteration(j) == IF j = 1 THEN 0 ELSE (j - 2) \div 4 + 1

C3_PhaseOrder ==
    /\ \A j \in DOMAIN calls :
          /\ calls[j].op = ExpectedOp(j)
          /\ calls[j].model = ExpectedModel(j)
          /\ calls[j].iteration = ExpectedIteration(j)
    /\ Len(calls) <= 1 + 4 * iterations
    /\ pc = "INIT" => calls = <<>>
    /\ pc \in {"RETURN", "DONE"} => Len(calls) = 1 + 4 * iterations
    /\ (pc = "DONE") = ("first" \in DOMAIN returned)

C3_Witness ==
    /\ pc = "DONE"
    /\ iterations = 2
    /\ Len(calls) = 9
    /\ calls[9].op = "train" /\ calls[9].model = TARGET_TO_SOURCE
    /\ calls[9].iteration = 2

\* C4: with iterations = 0 the run trains the target -> source model once,
\* returns the source -> target model as it was handed in, and makes no
\* predict call and writes no log block.
C4_ZeroIterations ==
    (pc = "DONE" /\ iterations = 0) =>
        /\ returned.first = InitialModel(SOURCE_TO_TARGET)
        /\ returned.second.updates = 1
        /\ Len(calls) = 1
        /\ calls[1].op = "train" /\ calls[1].model = TARGET_TO_SOURCE
        /\ NumLoggedBlocks = 0
        /\ Blocks(stdout) = <<>>

C4_Witness ==
    /\ pc = "DONE"
    /\ iterations = 0
    /\ returned.second.updates = 1
    /\ returned.first.updates = 0

\* C5 as stated: every row the sample inspector samples has, in the corpus it
\* is sampled from, input_ids free of the pad id and the ignore value, and a
\* complete run logs one block of DEFAULT_NUM_ROWS pairs per predict call.
C5_SampledRowsSentinelFree ==
    /\ pc = "MERGE_SOURCE_TO_TARGET" =>
          \A p \in DOMAIN stdout[Len(stdout)].rows :
             SentinelFree(synthetic_source_to_target_data[
                              stdout[Len(stdout)].rows[p].idx + 1].input_ids)
    /\ pc = "MERGE_TARGET_TO_SOURCE" =>
          \A p \in DOMAIN stdout[Len(stdout)].rows :
             SentinelFree(synthetic_target_to_source_data[
                              stdout[Len(stdout)].rows[p].idx + 1].input_ids)
    /\ pc = "DONE" =>
          /\ NumLoggedBlocks = 2 * iterations
          /\ \A d \in LogDirs : \A b \in DOMAIN files[d] :
                Len(files[d][b].rows) = DEFAULT_NUM_ROWS

\* C5 as amended: sampling never fails on a sentinel of a stored row; what is
\* decoded into a block holds neither the pad id nor the ignore value, the
\* ignore value being stripped from a local copy of the ids; every block
\* holds DEFAULT_NUM_ROWS pairs; and a complete run logs one block per
\* predict call.
C5_DecodedSamplesSentinelFree ==
    /\ error # "DecodeError"
    /\ \A d \in LogDirs : \A b \in DOMAIN files[d] :
          /\ Len(files[d][b].rows) = DEFAULT_NUM_ROWS
          /\ \A p \in DOMAIN files[d][b].rows :
                /\ files[d][b].rows[p].predicted # DecodeError
                /\ SentinelFree(files[d][b].rows[p].predicted)
    /\ NumLoggedBlocks = Len(Blocks(stdout))
    /\ NumLoggedBlocks <= NumCalls("predict")
    /\ pc = "DONE" => NumLoggedBlocks = 2 * iterations

C5_Witness ==
    /\ pc = "MERGE_SOURCE_TO_TARGET"
    /\ \E p \in DOMAIN stdout[Len(stdout)].rows :
          LET entry  == stdout[Len(stdout)].rows[p]
              stored == synthetic_source_to_target_data[entry.idx + 1].input_ids
          IN  /\ \E q \in DOMAIN stored : stored[q] = IGNORE_ID
              /\ \E q \in DOMAIN stored : stored[q] = PAD_ID
              /\ SentinelFree(entry.predicted)
              /\ entry.predicted # <<>>
    /\ Len(files[target_to_source_log_dir]) = 1

\* C6: after mask repair no synthetic row holds a pad id or an ignore value
\* in its input_ids: not in a merged corpus, and not in the train and eval
\* parts a trainer is built on.
SyntheticRow(row) == row.src = None \/ row.tgt = None

SyntheticRowsClean(rows) ==
    \A r \in DOMAIN rows : SyntheticRow(rows[r]) => SentinelFree(rows[r].input_ids)

IsSplit(d) == "train" \in DOMAIN d

C6_SyntheticRowsSentinelFree ==
    /\ IsTrainer(source_to_target_trainer) =>
          SyntheticRowsClean(TrainerRows(source_to_target_trainer))
    /\ IsTrainer(target_to_source_trainer) =>
          SyntheticRowsClean(TrainerRows(target_to_source_trainer))
    /\ IsSplit(combined_source_to_target_data) =>
          SyntheticRowsClean(combined_source_to_target_data.train
                             \o combined_source_to_target_data.test)
    /\ IsSplit(combined_target_to_source_data) =>
          SyntheticRowsClean(combined_target_to_source_data.train
                             \o combined_target_to_source_data.test)

C6_Witness ==
    /\ pc = "GENERATE_TARGET"
    /\ \E r \in DOMAIN synthetic_source_to_target_data :
          /\ \E q \in 1..4 : synthetic_source_to_target_data[r].input_ids[q] = IGNORE_ID
          /\ \E t \in DOMAIN source_to_target_trainer.train_dataset :
                LET row == source_to_target_trainer.train_dataset[t]
                IN  /\ row.src = None
                    /\ row.labels = synthetic_source_to_target_data[r].labels
                    /\ Len(row.input_ids) = 2
                    /\ SentinelFree(row.input_ids)

\* C7: after fix_attention_mask every row's attention_mask is as long as its
\* input_ids and holds only ones, whatever the batch was.
C7_MaskMatchesIds ==
    applied >= 1 =>
        \A r \in DOMAIN batch :
            /\ Len(batch[r].attention_mask) = Len(batch[r].input_ids)
            /\ \A p \in DOMAIN batch[r].attention_mask :
                  batch[r].attention_mask[p] = 1

C7_Witness ==
    /\ applied = 1
    /\ Len(batch) = 2
    /\ corpus[1].input_ids = <<PAD_ID, IGNORE_ID>>
    /\ batch[1].input_ids = <<>> /\ batch[1].attention_mask = <<>>
    /\ corpus[2].input_ids = <<7, PAD_ID>> /\ corpus[2].attention_mask = <<0, 1, 1>>
    /\ batch[2].input_ids = <<7>> /\ batch[2].attention_mask = <<1>>

\* C8: a predict call that hands back a number of sequences other than the
\* number of rows it was given is the last call of the run: building the
\* synthetic corpus raises, no synthetic corpus of another length than its
\* monolingual corpus is ever built, and no merge, log or training follows.
C8_LengthMismatchIsFatal ==
    /\ \A j \in DOMAIN calls :
          (calls[j].op = "predict" /\ calls[j].predictions # calls[j].rows) =>
              /\ j = Len(calls)
              /\ pc \in {"BUILD_SOURCE_TO_TARGET", "BUILD_TARGET_TO_SOURCE", "ABORTED"}
              /\ pc = "ABORTED" => error = "ValueError: add_column"
              /\ Len(Blocks(stdout)) = NumCalls("predict") - 1
    /\ pc \in {"LOG_SOURCE_TO_TARGET", "MERGE_SOURCE_TO_TARGET",
               "TRAIN_SOURCE_TO_TARGET"} =>
          Len(synthetic_source_to_target_data) = Len(target_data)
    /\ pc \in {"LOG_TARGET_TO_SOURCE", "MERGE_TARGET_TO_SOURCE",
               "TRAIN_TARGET_TO_SOURCE"} =>
          Len(synthetic_target_to_source_data) = Len(source_data)

C8_Witness ==
    /\ pc = "ABORTED"
    /\ error = "ValueError: add_column"
    /\ calls[Len(calls)].op = "predict"
    /\ calls[Len(calls)].predictions = calls[Len(calls)].rows - 1
    /\ calls[Len(calls)].model = SOURCE_TO_TARGET
    /\ NumCalls("train") = 2

\* C9: when the sample inspector is asked for more rows than the corpus has,
\* it raises before it prints or appends anything, and the run ends there: a
\* model is trained in an iteration only if the monolingual corpus its
\* synthetic data comes from has at least DEFAULT_NUM_ROWS rows.
C9_OversizedSampleRaises ==
    /\ error = "ValueError: sample" =>
          /\ pc = "ABORTED"
          /\ calls[Len(calls)].op = "predict"
          /\ stdout[Len(stdout)].kind = "Generating"
          /\ Len(Blocks(stdout)) = NumCalls("predict") - 1
          /\ NumLoggedBlocks = NumCalls("predict") - 1
    /\ \A j \in DOMAIN calls :
          (calls[j].op = "train" /\ calls[j].iteration >= 1) =>
              /\ calls[j].model = SOURCE_TO_TARGET =>
                    Len(target_data) >= DEFAULT_NUM_ROWS
              /\ calls[j].model = TARGET_TO_SOURCE =>
                    Len(source_data) >= DEFAULT_NUM_ROWS
    /\ pc \in {"MERGE_SOURCE_TO_TARGET", "TRAIN_SOURCE_TO_TARGET"} =>
          Len(target_data) >= DEFAULT_NUM_ROWS
    /\ pc \in {"MERGE_TARGET_TO_SOURCE", "TRAIN_TARGET_TO_SOURCE"} =>
          Len(source_data) >= DEFAULT_NUM_ROWS

C9_Witness ==
    /\ pc = "ABORTED"
    /\ error = "ValueError: sample"
    /\ Len(source_data) = DEFAULT_NUM_ROWS - 1
    /\ NumCalls("train") = 2
    /\ Len(synthetic_target_to_source_data) = DEFAULT_NUM_ROWS - 1
    /\ NumLoggedBlocks = 1

\* C10: called with 0 <= num_rows <= len(corpus), the sample inspector does
\* not raise; its block reports exactly num_rows rows whose indices are
\* pairwise distinct and lie in 0..len(corpus)-1; the block is appended to the
\* predictions file when log_predictions is set; and the corpus is as it was
\* handed in.
C10_SampleWithoutReplacement ==
    (pc # "SAMPLE" /\ sample_args.num_rows <= Len(corpus)) =>
        /\ pc = "SAMPLE_DONE"
        /\ Len(stdout) = 1
        /\ Len(stdout[1].rows) = sample_args.num_rows
        /\ \A p \in DOMAIN stdout[1].rows :
              stdout[1].rows[p].idx \in 0..(Len(corpus) - 1)
        /\ \A p, q \in DOMAIN stdout[1].rows :
              p # q => stdout[1].rows[p].idx # stdout[1].rows[q].idx
        /\ files[sample_args.log_dir] =
              IF sample_args.log_predictions THEN <<stdout[1]>> ELSE <<>>
        /\ corpus = batch

C10_Witness ==
    /\ pc = "SAMPLE_DONE"
    /\ sample_args.num_rows = 2
    /\ Len(corpus) = 2
    /\ corpus[1].input_ids = <<IGNORE_ID, 8>>
    /\ corpus[2].input_ids = <<IGNORE_ID, 8>>
    /\ stdout[1].rows[1].idx = 1
    /\ stdout[1].rows[2].idx = 0
    /\ stdout[1].rows[2].predicted = <<8>>
    /\ corpus = batch

\* ------------------------------------------------------------ loader claims
NumNotices == Len(SelectSeq(stdout, LAMBDA item : item.kind = "notice"))

NonBlank(text) == \E p \in DOMAIN text : text[p] \notin Whitespace

\* The text between the first and the last character that is no whitespace.
Core(text) ==
    LET solid == {p \in DOMAIN text : text[p] \notin Whitespace}
    IN  IF solid = {} THEN <<>>
        ELSE SubSeq(text, CHOOSE p \in solid : \A q \in solid : p <= q,
                          CHOOSE p \in solid : \A q \in solid : q <= p)

\* C11: a loader of parallel data never aborts; every Example it has yielded
\* has a source and a target field that are not blank; and every row it has
\* consumed was either yielded or skipped with a notice.
C11_ParallelRowsSkippedWhenEmpty ==
    loader \in {"yield_csv_lines", "yield_paired_lines"} =>
        /\ pc # "LOAD_RAISED"
        /\ \A k \in DOMAIN yielded :
              NonBlank(yielded[k].src) /\ NonBlank(yielded[k].tgt)
        /\ Len(yielded) + NumNotices = line_index

\* C12: when yield_mono_lines has finished on a file with V lines that are
\* not blank, it has yielded the first min(n, V) of them, whatever blank
\* lines lie between them.
C12_CapCountsYieldedRows ==
    (loader = "yield_mono_lines" /\ pc = "LOADED") =>
        LET valid == SelectSeq(opened.file, NonBlank)
            count == IF row_cap < Len(valid) THEN row_cap ELSE Len(valid)
        IN  /\ Len(yielded) = count
            /\ \A k \in 1..count : yielded[k].src = Core(valid[k])

\* C13: on a file with no more lines than the cap n, yield_mono_lines never
\* aborts; every line it has consumed gave either a row or a notice; and when
\* it has finished it has consumed every line, yielded the lines that are not
\* blank, in file order and stripped of the whitespace at their ends, and
\* emitted one notice per blank line.
C13_MonoRowsPlusNoticesAreLines ==
    (loader = "yield_mono_lines" /\ Len(opened.file) <= row_cap) =>
        /\ pc \in {"LOAD", "LOADED"}
        /\ error = "none"
        /\ Len(yielded) + NumNotices = line_index
        /\ pc = "LOADED" =>
              LET valid == SelectSeq(opened.file, NonBlank)
              IN  /\ line_index = Len(opened.file)
                  /\ Len(yielded) = Len(valid)
                  /\ \A k \in DOMAIN valid : yielded[k] = [src |-> Core(valid[k])]
                  /\ NumNotices = Len(opened.file) - Len(valid)

C13_Witness ==
    /\ loader = "yield_mono_lines"
    /\ pc = "LOADED"
    /\ row_cap = 3
    /\ opened.file = <<<<"a", NEWLINE>>, <<SPACE, NEWLINE>>,
                       <<SPACE, "b", SPACE, NEWLINE>>>>
    /\ yielded = <<[src |-> <<"a">>], [src |-> <<"b">>]>>
    /\ NumNotices = 1

\* ------------------------------------------------------------- merge claims
Range(seq) == {seq[p] : p \in DOMAIN seq}

\* The two parts of `split` hold every row of `merged` once, the test part
\* a tenth of them, rounded up.
IsHeldOutPartition(split, merged) ==
    /\ Len(split.train) + Len(split.test) = Len(merged)
    /\ Range(split.train) \cup Range(split.test) = Range(merged)
    /\ Range(split.train) \cap Range(split.test) = {}
    /\ Cardinality(Range(split.train)) = Len(split.train)
    /\ Cardinality(Range(split.test)) = Len(split.test)
    /\ 10 * Len(split.test) >= Len(merged)
    /\ 10 * (Len(split.test) - 1) < Len(merged)

\* C14: right after a merge step the train and eval parts together hold
\* exactly the authentic rows plus the synthetic rows of the step, each once
\* and with its masks repaired, the eval part being a tenth of them rounded
\* up; a corpus of 90 + 50 rows is split 126 / 14.
C14_MergeSizeAndPartition ==
    /\ pc = "TRAIN_SOURCE_TO_TARGET" =>
          /\ Len(combined_source_to_target_data.train)
               + Len(combined_source_to_target_data.test)
               = Len(source_to_target_data) + Len(synthetic_source_to_target_data)
          /\ IsHeldOutPartition(
                 combined_source_to_target_data,
                 fix_attention_mask(source_to_target_data
                                    \o synthetic_source_to_target_data))
    /\ pc = "TRAIN_TARGET_TO_SOURCE" =>
          /\ Len(combined_target_to_source_data.train)
               + Len(combined_target_to_source_data.test)
               = Len(target_to_source_data) + Len(synthetic_target_to_source_data)
          /\ IsHeldOutPartition(
                 combined_target_to_source_data,
                 fix_attention_mask(target_to_source_data
                                    \o synthetic_target_to_source_data))
    /\ NTest(90 + 50) = 14
    /\ (90 + 50) - NTest(90 + 50) = 126

C14_Witness ==
    /\ pc = "TRAIN_TARGET_TO_SOURCE"
    /\ Len(target_to_source_data) = 2
    /\ Len(synthetic_target_to_source_data) = 10
    /\ Len(combined_target_to_source_data.train) = 10
    /\ Len(combined_target_to_source_data.test) = 2
    /\ \E r \in 1..2 : combined_target_to_source_data.test[r].tgt = None
    /\ \E r \in 1..2 : combined_target_to_source_data.test[r].tgt # None
    /\ \E r \in 1..10 : \E q \in 1..4 :
          synthetic_target_to_source_data[r].input_ids[q] = IGNORE_ID

\* The rows of a split that were generated: they lack the text of one side.
SyntheticRowsOf(split) ==
    {row \in Range(split.train) \cup Range(split.test) : SyntheticRow(row)}

\* C15: the loop leaves the authentic corpora and the monolingual corpora as
\* tokenization made them; every training phase of the loop trains on as many
\* rows as the parallel corpus plus the monolingual corpus of its direction
\* have, in every iteration; and the synthetic rows a merge step hands to
\* training are the rows built from the predictions of the current
\* iteration, mask-repaired, and no others.
C15_SyntheticCorpusRegenerated ==
    /\ pc # "INIT" =>
          /\ source_to_target_data =
                 preprocess_source_to_target(parallel_data, "src", "tgt",
                                             PREPROCESS_MAX_LEN)
          /\ target_to_source_data =
                 preprocess_source_to_target(source_to_target_data, "tgt", "src",
                                             PREPROCESS_MAX_LEN)
          /\ source_data = preprocess_source_function(
                               MonoSourceRows(Len(source_data)), PREPROCESS_MAX_LEN)
          /\ target_data = preprocess_target_function(
                               MonoTargetRows(Len(target_data)), PREPROCESS_MAX_LEN)
    /\ \A j \in DOMAIN calls :
          (calls[j].op = "train" /\ calls[j].iteration >= 1) =>
              calls[j].train_rows + calls[j].eval_rows =
                  Len(parallel_data)
                  + (IF calls[j].model = SOURCE_TO_TARGET
                     THEN Len(target_data) ELSE Len(source_data))
    /\ pc = "TRAIN_SOURCE_TO_TARGET" =>
          /\ \A r \in DOMAIN synthetic_source_to_target_data :
                synthetic_source_to_target_data[r].input_ids = synthetic_source_data[r]
          /\ SyntheticRowsOf(combined_source_to_target_data) =
                 Range(fix_attention_mask(synthetic_source_to_target_data))
          /\ calls[Len(calls)].op = "predict"
          /\ calls[Len(calls)].iteration = iteration
    /\ pc = "TRAIN_TARGET_TO_SOURCE" =>
          /\ \A r \in DOMAIN synthetic_target_to_source_data :
                synthetic_target_to_source_data[r].input_ids = synthetic_target_data[r]
          /\ SyntheticRowsOf(combined_target_to_source_data) =
                 Range(fix_attention_mask(synthetic_target_to_source_data))
          /\ calls[Len(calls)].op = "predict"
          /\ calls[Len(calls)].iteration = iteration

\* The second iteration generates other text than the first did; the rows
\* handed to training hold the new text only.
C15_Witness ==
    /\ pc = "TRAIN_SOURCE_TO_TARGET"
    /\ iteration = 2
    /\ Len(Blocks(stdout)[1].rows[1].predicted) = 1
    /\ Len(Blocks(stdout)[3].rows[1].predicted) = 2
    /\ \A row \in SyntheticRowsOf(combined_source_to_target_data) :
          Len(row.input_ids) = 3
    /\ calls[3].train_rows + calls[3].eval_rows = 12
    /\ Len(combined_source_to_target_data.train)
         + Len(combined_source_to_target_data.test) = 12

\* C16: every predict call comes right after a train call of the model that
\* predicts and sees the weights that call left: the target -> source model
\* predicts in iteration i after its training of iteration i - 1 (the
\* warm-up for i = 1), the source -> target model after its training of
\* iteration i; no model predicts before it was trained.
C16_GenerationUsesFreshWeights ==
    \A j \in DOMAIN calls :
        calls[j].op = "predict" =>
            /\ j > 1
            /\ calls[j - 1].op = "train"
            /\ calls[j - 1].model = calls[j].model
            /\ calls[j - 1].iteration =
                   IF calls[j].model = TARGET_TO_SOURCE
                   THEN calls[j].iteration - 1 ELSE calls[j].iteration
            /\ calls[j].updates = calls[j - 1].updates + 1
            /\ calls[j].updates =
                   Cardinality({t \in 1..(j - 1) :
                                   /\ calls[t].op = "train"
                                   /\ calls[t].model = calls[j].model})

C16_Witness ==
    /\ pc = "DONE"
    /\ iterations = 2
    /\ calls[2].op = "predict" /\ calls[2].model = TARGET_TO_SOURCE
    /\ calls[2].updates = 1
    /\ calls[6].op = "predict" /\ calls[6].model = TARGET_TO_SOURCE
    /\ calls[6].updates = 2
    /\ calls[8].op = "predict" /\ calls[8].model = SOURCE_TO_TARGET
    /\ calls[8].updates = 2
    /\ returned.first.updates = 2 /\ returned.second.updates = 3

\* C17: the synthetic corpus has one row per row of the monolingual corpus
\* it is built from; row r carries the r-th generated sequence as its
\* input_ids, as generated, and the input_ids of the r-th monolingual row as
\* its labels, the row's text being kept.
C17_SyntheticPairsRowAligned ==
    /\ pc \in {"LOG_SOURCE_TO_TARGET", "MERGE_SOURCE_TO_TARGET",
               "TRAIN_SOURCE_TO_TARGET"} =>
          /\ Len(synthetic_source_to_target_data) = Len(target_data)
          /\ Len(synthetic_source_to_target_data) = Len(synthetic_source_data)
          /\ \A r \in DOMAIN target_data :
                /\ synthetic_source_to_target_data[r].labels = target_data[r].input_ids
                /\ synthetic_source_to_target_data[r].input_ids = synthetic_source_data[r]
                /\ synthetic_source_to_target_data[r].tgt = target_data[r].tgt
    /\ pc \in {"LOG_TARGET_TO_SOURCE", "MERGE_TARGET_TO_SOURCE",
               "TRAIN_TARGET_TO_SOURCE"} =>
          /\ Len(synthetic_target_to_source_data) = Len(source_data)
          /\ Len(synthetic_target_to_source_data) = Len(synthetic_target_data)
          /\ \A r \in DOMAIN source_data :
                /\ synthetic_target_to_source_data[r].labels = source_data[r].input_ids
                /\ synthetic_target_to_source_data[r].input_ids = synthetic_target_data[r]
                /\ synthetic_target_to_source_data[r].src = source_data[r].src

C17_Witness ==
    /\ pc = "LOG_TARGET_TO_SOURCE"
    /\ Len(source_data) = 10
    /\ synthetic_target_data[1] # synthetic_target_data[10]
    /\ source_data[1].input_ids # source_data[10].input_ids
    /\ synthetic_target_to_source_data[10].labels = <<40, EOS_ID>>
    /\ synthetic_target_to_source_data[10].input_ids = <<PAD_ID, 140, EOS_ID, IGNORE_ID>>
    /\ synthetic_target_to_source_data[1].input_ids = <<PAD_ID, 131, EOS_ID, IGNORE_ID>>

\* C18: the first train call is the warm-up: the target -> source model, 10
\* epochs whatever num_epochs is, on the rows of the parallel corpus alone,
\* split into a held-out tenth (rounded up) and the rest; every later train
\* call, of either model, runs num_epochs epochs.
C18_WarmupAndLaterEpochs ==
    /\ \A j \in DOMAIN calls :
          calls[j].op = "train" =>
              IF j = 1
              THEN /\ calls[j].model = TARGET_TO_SOURCE
                   /\ calls[j].num_train_epochs = 10
                   /\ calls[j].train_rows + calls[j].eval_rows = Len(parallel_data)
                   /\ 10 * calls[j].eval_rows >= Len(parallel_data)
                   /\ 10 * (calls[j].eval_rows - 1) < Len(parallel_data)
              ELSE calls[j].num_train_epochs = num_epochs
    /\ (pc = "LOOP" /\ iteration = 0) =>
          /\ IsHeldOutPartition(combined_target_to_source_data, target_to_source_data)
          /\ target_to_source_trainer.train_dataset = combined_target_to_source_data.train
          /\ target_to_source_trainer.eval_dataset = combined_target_to_source_data.test
          /\ \A r \in DOMAIN TrainerRows(target_to_source_trainer) :
                ~SyntheticRow(TrainerRows(target_to_source_trainer)[r])
          /\ target_to_source_model.epochs = 10
    /\ pc = "DONE" =>
          /\ returned.first.epochs = iterations * num_epochs
          /\ returned.second.epochs = 10 + iterations * num_epochs

C18_Witness ==
    /\ pc = "DONE"
    /\ iterations = 1
    /\ num_epochs = 3
    /\ Len(parallel_data) = 2
    /\ calls[1].num_train_epochs = 10
    /\ calls[1].train_rows = 1 /\ calls[1].eval_rows = 1
    /\ calls[3].num_train_epochs = 3
    /\ calls[5].num_train_epochs = 3
    /\ returned.second.epochs = 13

\* The ids of a sequence that are neither 0 nor -100, in their order.
Kept(ids) == SelectSeq(ids, LAMBDA x : x # 0 /\ x # -100)

\* C19: fix_attention_mask keeps the number of rows, the labels and the text
\* of every row; the input_ids it leaves are the ids that are no sentinel, in
\* the order they had; and applying it twice gives the batch that applying
\* it once gives.
C19_FixAttentionMaskIdempotent ==
    /\ Len(batch) = Len(corpus)
    /\ \A r \in DOMAIN batch :
          /\ batch[r].labels = corpus[r].labels
          /\ batch[r].src = corpus[r].src
          /\ batch[r].tgt = corpus[r].tgt
          /\ applied >= 1 => batch[r].input_ids = Kept(corpus[r].input_ids)
    /\ applied >= 1 => batch = fix_attention_mask(corpus)

C19_Witness ==
    /\ applied = 2
    /\ Len(corpus) = 2
    /\ corpus[1].input_ids = <<7, 8>>
    /\ corpus[2].input_ids = <<PAD_ID, 8>>
    /\ batch[1].input_ids = <<7, 8>> /\ batch[1].attention_mask = <<1, 1>>
    /\ batch[2].input_ids = <<8>> /\ batch[2].attention_mask = <<1>>
    /\ batch[2].labels = <<9, EOS_ID>>
    /\ batch # corpus

\* The logging directories whose predictions file holds a block.
WrittenLogDirs == {d \in LogDirs : files[d] # <<>>}

\* C20: no predictions file receives more than one block in a run; a block
\* in 'target_to_source/iteration k' is the block of the synthetic source
\* data of iteration k + 1, a block in 'source_to_target/iteration k' that of
\* the synthetic target data of iteration k; the blocks printed carry the
\* iteration they were made in; a block made in the first half of an
\* iteration lies in the logging directory of the trainer that generated its
\* data; and a complete run of k iterations has written 2k files.
C20_LogPathsAndHeaders ==
    /\ \A d \in LogDirs :
          /\ Len(files[d]) <= 1
          /\ files[d] # <<>> =>
                IF d.dir = TARGET_TO_SOURCE
                THEN /\ files[d][1].iteration = d.iteration + 1
                     /\ files[d][1].source_lang = "src"
                ELSE /\ files[d][1].iteration = d.iteration
                     /\ files[d][1].source_lang = "tgt"
    /\ \A b \in DOMAIN Blocks(stdout) :
          Blocks(stdout)[b].iteration = (b + 1) \div 2
    /\ pc = "MERGE_SOURCE_TO_TARGET" =>
          /\ files[target_to_source_trainer.logging_dir] = <<stdout[Len(stdout)]>>
          /\ stdout[Len(stdout)].iteration = iteration
          /\ target_to_source_trainer.logging_dir = LogDir(TARGET_TO_SOURCE, iteration - 1)
    /\ pc = "MERGE_TARGET_TO_SOURCE" =>
          /\ files[source_to_target_trainer.logging_dir] = <<stdout[Len(stdout)]>>
          /\ stdout[Len(stdout)].iteration = iteration
          /\ source_to_target_trainer.logging_dir = LogDir(SOURCE_TO_TARGET, iteration)
    /\ pc = "DONE" =>
          /\ WrittenLogDirs =
                 {LogDir(TARGET_TO_SOURCE, k - 1) : k \in 1..iterations}
                 \cup {LogDir(SOURCE_TO_TARGET, k) : k \in 1..iterations}
          /\ Cardinality(WrittenLogDirs) = 2 * iterations

C20_Witness ==
    /\ pc = "DONE"
    /\ iterations = 2
    /\ files[LogDir(TARGET_TO_SOURCE, 0)][1].iteration = 1
    /\ files[LogDir(TARGET_TO_SOURCE, 1)][1].iteration = 2
    /\ files[LogDir(SOURCE_TO_TARGET, 1)][1].iteration = 1
    /\ files[LogDir(SOURCE_TO_TARGET, 2)][1].iteration = 2
    /\ files[LogDir(TARGET_TO_SOURCE, 2)] = <<>>
    /\ files[LogDir(SOURCE_TO_TARGET, 0)] = <<>>

====
